---- MODULE Spec2Model ----
(***************************************************************************)
(* Benchmark harness of the lid-driven-cavity solver:                      *)
(*   validation/executor.py  the sweep over GEOM_CAVITY_SIZES              *)
(*   validation/plots.py     the loader of the result files and speed-up   *)
(* Text (paths, file names, file contents) is a sequence of one-character  *)
(* strings; a path is resolved to its sequence of components.              *)
(***************************************************************************)
EXTENDS Integers, Sequences, FiniteSets, TLC

VARIABLES
    pc,        \* executor: the statement main()/execute()/exec_sim() is at
    idx,       \* executor: position of the for loop in GEOM_CAVITY_SIZES
    dirs,      \* file system: the directories that exist (resolved paths)
    files,     \* file system: resolved path -> content of the file there
    error,     \* executor: the exception that ended the process, or "none"
    events,    \* history: what the sweep has done so far, in order
    produced,  \* history: size -> result file content when its run exited 0
    start,     \* history: the directories and files main() started with
    tpc,       \* artifact text: what has been called so far
    size_n,    \* artifact text: the cavity size create_geom is called with
    size_m,    \* artifact text: a second cavity size, for json_filename
    geom_file, \* artifact text: the text create_geom wrote to its file
    names,     \* artifact text: <<json_filename(size_n), json_filename(size_m)>>
    ppc,       \* plots: the statement plot_speedup is at
    pk,        \* plots: position of the dict comprehension in datasets
    datasets,  \* plots: plot_speedup's argument, a list of (name, directory)
    relbase,   \* plots: plot_speedup's argument, the name of the baseline
    jsons,     \* plots: resolved path -> the parsed JSON of the file there
    results_tts,     \* plots: name -> averages, l.38
    results_solver,  \* plots: name -> averages, l.39
    speedup_tts,     \* plots: list of (name, series), l.43
    speedup_solver,  \* plots: list of (name, series), l.47
    plotted,   \* plots: the series drawn into the saved figure
    perror,    \* plots: the exception that ended plot_speedup, or "none"
    spc,       \* speed-up: which calls of calc_speedup have been made
    in_base,   \* speed-up: a series of positive floats
    in_other,  \* speed-up: a second series of the same length
    in_k,      \* speed-up: a positive float both series are scaled by
    out_self,  \* speed-up: calc_speedup(in_base, in_base)
    out_plain, \* speed-up: calc_speedup(in_base, in_other)
    out_scaled, \* speed-up: calc_speedup(in_k * in_base, in_k * in_other)
    path_pc,   \* paths: whether the executor or the loader is at work
    path_i,    \* paths: position in the list of sizes
    args_json, \* paths: the dataset directory, as both programs are given it
    passed,    \* paths: the --json files the executor has passed to the solver
    opened     \* paths: the files the loader has opened

sweepVars == <<pc, idx, dirs, files, error, events, produced, start>>
textVars == <<tpc, size_n, size_m, geom_file, names>>
plotVars == <<ppc, pk, datasets, relbase, jsons, results_tts, results_solver,
              speedup_tts, speedup_solver, plotted, perror>>
speedVars == <<spc, in_base, in_other, in_k, out_self, out_plain, out_scaled>>
pathVars == <<path_pc, path_i, args_json, passed, opened>>

----------------------------------------------------------------------------
\* Text

Digit == <<"0", "1", "2", "3", "4", "5", "6", "7", "8", "9">>

RECURSIVE Dec(_)
\* the decimal digits of a natural number, most significant first
Dec(n) ==
    IF n < 10 THEN <<Digit[n + 1]>>
    ELSE Dec(n \div 10) \o <<Digit[(n % 10) + 1]>>

\* "{n}".format(n=...) of an int
FormatInt(n) == IF n < 0 THEN <<"-">> \o Dec(-n) ELSE Dec(n)

RECURSIVE Repeat(_, _)
\* Python's  s * k  for a one-character string s (empty when k <= 0)
Repeat(c, k) == IF k <= 0 THEN <<>> ELSE <<c>> \o Repeat(c, k - 1)

\* the pieces of text s between the occurrences of character c
SplitOn(s, c) ==
    LET seps == {i \in 1..Len(s) : s[i] = c}
        count == Cardinality(seps)
        \* where the k-th occurrence is; 0 and Len(s) + 1 bound the text
        pos(k) == IF k = 0 THEN 0
                  ELSE IF k = count + 1 THEN Len(s) + 1
                  ELSE CHOOSE i \in seps :
                          Cardinality({j \in seps : j < i}) = k - 1
    IN  [k \in 1..(count + 1) |-> SubSeq(s, pos(k - 1) + 1, pos(k) - 1)]

RECURSIVE Walk(_, _)
\* path resolution over the components: "" and "." stay, ".." goes up
Walk(comps, acc) ==
    IF comps = <<>> THEN acc
    ELSE LET c == Head(comps)
         IN  IF c = <<>> \/ c = <<".">> THEN Walk(Tail(comps), acc)
             ELSE IF c = <<".", ".">>
                  THEN Walk(Tail(comps),
                            IF acc = <<>> THEN acc
                            ELSE SubSeq(acc, 1, Len(acc) - 1))
                  ELSE Walk(Tail(comps), Append(acc, c))

\* the file-system object an absolute path string denotes
Resolve(path) == Walk(SplitOn(path, "/"), <<>>)

Parent(p) == SubSeq(p, 1, Len(p) - 1)

----------------------------------------------------------------------------
\* executor.py: constants and path helpers

REL_PATH_TMP == <<".", "/", "t", "m", "p">>
REL_PATH_DATA == <<".", "/", "d", "a", "t", "a">>
DATAFILE_PREFIX ==
    <<".", "/", "l", "i", "d", "-", "d", "r", "i", "v", "e", "n", "-",
      "c", "a", "v", "i", "t", "y">>
GEOM_SUFFIX == <<".", "g", "e", "o", "m">>
PARAMS_SUFFIX == <<".", "p", "a", "r", "a", "m", "s">>
JSON_SUFFIX == <<".", "j", "s", "o", "n">>

GEOM_CAVITY_SIZES == <<32, 64, 100, 128, 200, 256, 300>>

\* os.path.dirname(os.path.abspath(__file__)): the directory of the script
abs_path == <<"/", "v", "a", "l", "i", "d", "a", "t", "i", "o", "n">>

abs_path_tmp == abs_path \o <<"/">> \o REL_PATH_TMP

\* "_{n}x{n}".format(n=cavity_size)
SizeTag(cavity_size) ==
    <<"_">> \o FormatInt(cavity_size) \o <<"x">> \o FormatInt(cavity_size)

\* the size left out of the name
json_filename_nosize(cavity_size) == DATAFILE_PREFIX \o JSON_SUFFIX

json_filename(cavity_size) ==
    DATAFILE_PREFIX \o SizeTag(cavity_size) \o JSON_SUFFIX

abs_path_geom(cavity_size) ==
    abs_path_tmp \o <<"/">> \o DATAFILE_PREFIX \o SizeTag(cavity_size)
        \o GEOM_SUFFIX

abs_path_params == abs_path_tmp \o <<"/">> \o DATAFILE_PREFIX \o PARAMS_SUFFIX

\* the log put next to the results
stdout_path_in_data(cavity_size) ==
    abs_path \o <<"/">> \o REL_PATH_DATA
        \o <<"/", ".", "t", "m", "p", ".">> \o FormatInt(cavity_size)
        \o <<".", "s", "t", "d", "o", "u", "t">>

\* exec_sim's local  stdout
stdout_path(cavity_size) ==
    abs_path \o <<"/">> \o REL_PATH_TMP
        \o <<"/", ".", "t", "m", "p", ".">> \o FormatInt(cavity_size)
        \o <<".", "s", "t", "d", "o", "u", "t">>

\* main's  abs_path_data  with the default of --json
abs_path_data == abs_path \o <<"/">> \o REL_PATH_DATA

\* main, l.140: abs_path() + '/' + args.json
main_abs_path_data(json) == abs_path \o <<"/">> \o json

\* exec_sim's  --json  argument
json_path(data, cavity_size) == data \o <<"/">> \o json_filename(cavity_size)

----------------------------------------------------------------------------
\* executor.py: the text create_geom builds

NL == <<"\n">>

\* one pass of the loop of l.61-64: a wall, the free cells, a wall
MaskRow(cavity_size) ==
    <<"#">> \o Repeat(" ", cavity_size - 2) \o <<"#">> \o NL

RECURSIVE MaskRows(_, _)
\* for _ in range(0, count): one MaskRow each
MaskRows(cavity_size, count) ==
    IF count <= 0 THEN <<>>
    ELSE MaskRow(cavity_size) \o MaskRows(cavity_size, count - 1)

\* l.55-59: the five header lines
GeomHeader(cavity_size) ==
    LET n == FormatInt(cavity_size)
    IN  <<"s", "i", "z", "e", " ", "=", " ">> \o n \o <<" ">> \o n \o NL
        \o <<"l", "e", "n", "g", "t", "h", " ", "=", " ",
             "1", ".", "0", " ", "1", ".", "0">> \o NL
        \o <<"v", "e", "l", "o", "c", "i", "t", "y", " ", "=", " ",
             "1", ".", "0", " ", "0", ".", "0">> \o NL
        \o <<"p", "r", "e", "s", "s", "u", "r", "e", " ", "=", " ",
             "0", ".", "1">> \o NL
        \o <<"g", "e", "o", "m", "e", "t", "r", "y", " ", "=", " ",
             "f", "r", "e", "e">> \o NL

\* the loop run once too often: range(0, cavity_size - 1)
create_geom_content_long(cavity_size) ==
    GeomHeader(cavity_size)
        \o Repeat("H", cavity_size) \o NL
        \o MaskRows(cavity_size, cavity_size - 1)
        \o Repeat("#", cavity_size) \o NL

\* l.55-65: the text create_geom writes to the geometry file
create_geom_content(cavity_size) ==
    GeomHeader(cavity_size)
        \o Repeat("H", cavity_size) \o NL
        \o MaskRows(cavity_size, cavity_size - 2)
        \o Repeat("#", cavity_size) \o NL

----------------------------------------------------------------------------
\* The file system the executor works in

\* a file's content: what kind of text it holds and what that text is of
Content(kind, of) == [kind |-> kind, of |-> of]

\* the parameter block create_params writes: the same eight lines every time
ParamsText == Content("params", 0)
\* the text create_geom(n) writes, named by the size that determines it
GeomText(n) == Content("geom", n)
\* a log just opened with mode 'w', and one holding a solver's diagnostics
EmptyLog == Content("stdout", 0)
SolverLog(n) == Content("stdout", n)
\* the result the solver writes for size n, and one an earlier sweep left
ResultText(n) == Content("result", n)
StaleResultText(n) == Content("stale_result", n)
\* a file that is none of the sweep's
OtherText == Content("other", 0)

NoFiles == [p \in {} |-> OtherText]

IsFile(p) == p \in DOMAIN files
IsDir(p) == p \in dirs

\* the entries of directory d
Entries(d) ==
    {p \in (DOMAIN files) \cup dirs : Len(p) = Len(d) + 1 /\ Parent(p) = d}

\* open(path, 'w') succeeds when the directory is there and path is no directory
CanCreate(p) == IsDir(Parent(p)) /\ ~IsDir(p)

\* the files after writing content c to the file at p (created or truncated)
WriteFile(fs, p, c) ==
    [q \in (DOMAIN fs) \cup {p} |-> IF q = p THEN c ELSE fs[q]]

\* the files after os.remove of the file at p
RemoveFile(fs, p) == [q \in (DOMAIN fs) \ {p} |-> fs[q]]

----------------------------------------------------------------------------
\* The directories and files main() may find when it starts

Root == Resolve(abs_path)
TmpDir == Resolve(abs_path_tmp)
DataDir == Resolve(abs_path_data)

Sizes == {GEOM_CAVITY_SIZES[i] : i \in DOMAIN GEOM_CAVITY_SIZES}

\* the files of the sweep, resolved once for every size
GeomFiles == [n \in Sizes |-> Resolve(abs_path_geom(n))]
LogFiles == [n \in Sizes |-> Resolve(stdout_path(n))]
ResultFiles == [n \in Sizes |-> Resolve(json_path(abs_path_data, n))]

GeomFile(n) == GeomFiles[n]
ParamsFile == Resolve(abs_path_params)
LogFile(n) == LogFiles[n]
ResultFile(n) == ResultFiles[n]
\* a file in tmp that no sweep wrote
StrayFile == Append(TmpDir, <<"n", "o", "t", "e", "s">>)

\* result files an earlier sweep left for the first k sizes
EarlierResults(k) ==
    [p \in {ResultFile(GEOM_CAVITY_SIZES[i]) : i \in 1..k} |->
        LET n == CHOOSE m \in Sizes : ResultFile(m) = p
        IN  StaleResultText(n)]

\* what an earlier sweep that aborted at the k-th size left in tmp
AbortLeftovers(k) ==
    LET n == GEOM_CAVITY_SIZES[k]
    IN  [p \in {ParamsFile, GeomFile(n), LogFile(n)} |->
            IF p = ParamsFile THEN ParamsText
            ELSE IF p = GeomFile(n) THEN GeomText(n) ELSE SolverLog(n)]

Histories ==
    \* nothing was ever run; both directories exist and are empty
    { [dirs |-> {Root}, files |-> NoFiles],
      [dirs |-> {Root, TmpDir, DataDir}, files |-> NoFiles],
    \* an earlier sweep went through
      [dirs |-> {Root, DataDir},
       files |-> EarlierResults(Len(GEOM_CAVITY_SIZES))],
    \* somebody put a file into tmp
      [dirs |-> {Root, TmpDir}, files |-> WriteFile(NoFiles, StrayFile, OtherText)] }
    \cup
    \* an earlier sweep aborted at the k-th size; data holds the results of the
    \* first j sizes: the failing solver wrote none (j = k - 1) or its own
    \* (j = k), or a complete sweep had gone before (j = all)
    UNION { { [dirs |-> {Root, TmpDir, DataDir},
                files |-> [p \in DOMAIN AbortLeftovers(k)
                                    \cup DOMAIN EarlierResults(j) |->
                             IF p \in DOMAIN AbortLeftovers(k)
                             THEN AbortLeftovers(k)[p]
                             ELSE EarlierResults(j)[p]]] :
                j \in {k - 1, k, Len(GEOM_CAVITY_SIZES)} } :
            k \in DOMAIN GEOM_CAVITY_SIZES }

----------------------------------------------------------------------------
\* executor.py: main(), execute(), exec_sim() statement by statement

Event(op, n) == [op |-> op, n |-> n]

CurSize == GEOM_CAVITY_SIZES[idx]

\* an exception nobody catches: the process ends where it is
Raise(e) ==
    /\ pc' = "failed"
    /\ error' = e
    /\ UNCHANGED <<idx, dirs, files, events, produced, start>>

\* impl.utils.mkdir: the directory is created if absent, left alone if present
utils_mkdir(ds, d) == ds \cup {d}

\* main, l.144: utils.mkdir(abs_path_tmp())
main_mkdir_tmp ==
    /\ pc = "mkdir_tmp"
    /\ dirs' = utils_mkdir(dirs, TmpDir)
    /\ pc' = "mkdir_data"
    /\ UNCHANGED <<idx, files, error, events, produced, start>>

\* main, l.148: utils.mkdir(abs_path_data)
main_mkdir_data ==
    /\ pc = "mkdir_data"
    /\ dirs' = utils_mkdir(dirs, DataDir)
    /\ pc' = "create_params"
    /\ UNCHANGED <<idx, files, error, events, produced, start>>

\* execute, l.115: create_params(), then the for loop is entered
create_params ==
    /\ pc = "create_params"
    /\ IF CanCreate(ParamsFile)
       THEN /\ files' = WriteFile(files, ParamsFile, ParamsText)
            /\ events' = Append(events, Event("create_params", 0))
            /\ idx' = 1
            /\ pc' = IF Len(GEOM_CAVITY_SIZES) = 0 THEN "remove_params"
                     ELSE "create_geom"
            /\ UNCHANGED <<dirs, error, produced, start>>
       ELSE Raise("OSError")

\* create_params called again for every size
create_geom_and_params ==
    /\ pc = "create_geom"
    /\ IF CanCreate(GeomFile(CurSize))
       THEN /\ files' = WriteFile(WriteFile(files, ParamsFile, ParamsText),
                                  GeomFile(CurSize), GeomText(CurSize))
            /\ events' = events \o <<Event("create_params", 0),
                                     Event("create_geom", CurSize)>>
            /\ pc' = "open_log"
            /\ UNCHANGED <<idx, dirs, error, produced, start>>
       ELSE Raise("OSError")

\* execute, l.123: create_geom(n)
create_geom ==
    /\ pc = "create_geom"
    /\ IF CanCreate(GeomFile(CurSize))
       THEN /\ files' = WriteFile(files, GeomFile(CurSize), GeomText(CurSize))
            /\ events' = Append(events, Event("create_geom", CurSize))
            /\ pc' = "open_log"
            /\ UNCHANGED <<idx, dirs, error, produced, start>>
       ELSE Raise("OSError")

\* open(stdout, 'x'): a log that is there already is not written over
exec_sim_open_exclusive ==
    /\ pc = "open_log"
    /\ IF CanCreate(LogFile(CurSize)) /\ ~IsFile(LogFile(CurSize))
       THEN /\ files' = WriteFile(files, LogFile(CurSize), EmptyLog)
            /\ events' = Append(events, Event("open_log", CurSize))
            /\ pc' = "check_call"
            /\ UNCHANGED <<idx, dirs, error, produced, start>>
       ELSE Raise("OSError")

\* exec_sim, l.107: open(stdout, 'w')
exec_sim_open ==
    /\ pc = "open_log"
    /\ IF CanCreate(LogFile(CurSize))
       THEN /\ files' = WriteFile(files, LogFile(CurSize), EmptyLog)
            /\ events' = Append(events, Event("open_log", CurSize))
            /\ pc' = "check_call"
            /\ UNCHANGED <<idx, dirs, error, produced, start>>
       ELSE Raise("OSError")

\* the files after the solver has run for size n: its diagnostics are in the
\* log, and its result is in the --json file if it wrote one
SolverFiles(fs, n, wrote) ==
    LET logged == WriteFile(fs, LogFile(n), SolverLog(n))
    IN  IF wrote THEN WriteFile(logged, ResultFile(n), ResultText(n))
        ELSE logged

ResultNow(fs, n) ==
    IF ResultFile(n) \in DOMAIN fs THEN fs[ResultFile(n)] ELSE Content("none", 0)

\* subprocess.call in place of check_call: the exit code is not looked at
exec_sim_call(code, wrote) ==
    /\ pc = "check_call"
    /\ files' = SolverFiles(files, CurSize, wrote)
    /\ events' = events
                    \o (IF wrote THEN <<Event("write_result", CurSize)>> ELSE <<>>)
                    \o <<Event(IF code = 0 THEN "exit_zero" ELSE "exit_nonzero",
                               CurSize)>>
    /\ pc' = "remove_log"
    /\ produced' = [n \in DOMAIN produced \cup {CurSize} |->
                      IF n = CurSize THEN ResultNow(files', CurSize)
                      ELSE produced[n]]
    /\ UNCHANGED <<idx, dirs, error, start>>

\* the log removed in a finally clause: it goes on a nonzero exit too
exec_sim_check_call_finally(code, wrote) ==
    /\ pc = "check_call"
    /\ events' = events
                    \o (IF wrote THEN <<Event("write_result", CurSize)>> ELSE <<>>)
                    \o <<Event(IF code = 0 THEN "exit_zero" ELSE "exit_nonzero",
                               CurSize)>>
    /\ IF code = 0
       THEN /\ files' = SolverFiles(files, CurSize, wrote)
            /\ pc' = "remove_log"
            /\ produced' = [n \in DOMAIN produced \cup {CurSize} |->
                              IF n = CurSize THEN ResultNow(files', CurSize)
                              ELSE produced[n]]
            /\ UNCHANGED <<idx, dirs, error, start>>
       ELSE /\ files' = RemoveFile(SolverFiles(files, CurSize, wrote),
                                   LogFile(CurSize))
            /\ pc' = "failed"
            /\ error' = "CalledProcessError"
            /\ UNCHANGED <<idx, dirs, produced, start>>

\* the --json file of a run that exited nonzero removed before the exception
\* goes on
exec_sim_check_call_discard(code, wrote) ==
    /\ pc = "check_call"
    /\ events' = events
                    \o (IF wrote THEN <<Event("write_result", CurSize)>> ELSE <<>>)
                    \o <<Event(IF code = 0 THEN "exit_zero" ELSE "exit_nonzero",
                               CurSize)>>
    /\ IF code = 0
       THEN /\ files' = SolverFiles(files, CurSize, wrote)
            /\ pc' = "remove_log"
            /\ produced' = [n \in DOMAIN produced \cup {CurSize} |->
                              IF n = CurSize THEN ResultNow(files', CurSize)
                              ELSE produced[n]]
            /\ UNCHANGED <<idx, dirs, error, start>>
       ELSE /\ files' = RemoveFile(SolverFiles(files, CurSize, wrote),
                                   ResultFile(CurSize))
            /\ pc' = "failed"
            /\ error' = "CalledProcessError"
            /\ UNCHANGED <<idx, dirs, produced, start>>

\* check_call with a timeout: the wait is given up and TimeoutExpired raised
\* while the solver still runs
exec_sim_check_call_timeout(code, wrote) ==
    /\ pc = "check_call"
    /\ files' = SolverFiles(files, CurSize, wrote)
    /\ IF code = 0
       THEN /\ events' = events
                    \o (IF wrote THEN <<Event("write_result", CurSize)>> ELSE <<>>)
                    \o <<Event("exit_zero", CurSize)>>
            /\ pc' = "remove_log"
            /\ produced' = [n \in DOMAIN produced \cup {CurSize} |->
                              IF n = CurSize THEN ResultNow(files', CurSize)
                              ELSE produced[n]]
            /\ UNCHANGED <<idx, dirs, error, start>>
       ELSE /\ events' = Append(events, Event("timeout", CurSize))
            /\ pc' = "failed"
            /\ error' = "TimeoutExpired"
            /\ UNCHANGED <<idx, dirs, produced, start>>

\* exec_sim, l.108: subprocess.check_call returns when the solver exits 0 and
\* raises CalledProcessError when it exits with anything else
exec_sim_check_call(code, wrote) ==
    /\ pc = "check_call"
    /\ files' = SolverFiles(files, CurSize, wrote)
    /\ events' = events
                    \o (IF wrote THEN <<Event("write_result", CurSize)>> ELSE <<>>)
                    \o <<Event(IF code = 0 THEN "exit_zero" ELSE "exit_nonzero",
                               CurSize)>>
    /\ IF code = 0
       THEN /\ pc' = "remove_log"
            /\ produced' = [n \in DOMAIN produced \cup {CurSize} |->
                              IF n = CurSize THEN ResultNow(files', CurSize)
                              ELSE produced[n]]
            /\ UNCHANGED <<idx, dirs, error, start>>
       ELSE /\ pc' = "failed"
            /\ error' = "CalledProcessError"
            /\ UNCHANGED <<idx, dirs, produced, start>>

\* the os.remove of the log left out of exec_sim
exec_sim_remove_forgot ==
    /\ pc = "remove_log"
    /\ pc' = "remove_geom"
    /\ UNCHANGED <<idx, dirs, files, error, events, produced, start>>

\* exec_sim, l.110: os.remove(stdout)
exec_sim_remove ==
    /\ pc = "remove_log"
    /\ IF IsFile(LogFile(CurSize))
       THEN /\ files' = RemoveFile(files, LogFile(CurSize))
            /\ events' = Append(events, Event("remove_log", CurSize))
            /\ pc' = "remove_geom"
            /\ UNCHANGED <<idx, dirs, error, produced, start>>
       ELSE Raise("OSError")

\* the os.remove of the geometry left out of the loop
execute_keep_geom ==
    /\ pc = "remove_geom"
    /\ idx' = idx + 1
    /\ pc' = IF idx < Len(GEOM_CAVITY_SIZES) THEN "create_geom"
             ELSE "remove_params"
    /\ UNCHANGED <<dirs, files, events, error, produced, start>>

\* the loop going on with the size after the next
execute_remove_geom_skip ==
    /\ pc = "remove_geom"
    /\ IF IsFile(GeomFile(CurSize))
       THEN /\ files' = RemoveFile(files, GeomFile(CurSize))
            /\ events' = Append(events, Event("remove_geom", CurSize))
            /\ idx' = IF idx + 2 <= Len(GEOM_CAVITY_SIZES) THEN idx + 2 ELSE idx + 1
            /\ pc' = IF idx < Len(GEOM_CAVITY_SIZES) THEN "create_geom"
                     ELSE "remove_params"
            /\ UNCHANGED <<dirs, error, produced, start>>
       ELSE Raise("OSError")

\* execute, l.128: os.remove(abs_path_geom(n)), then the loop goes on or ends
execute_remove_geom ==
    /\ pc = "remove_geom"
    /\ IF IsFile(GeomFile(CurSize))
       THEN /\ files' = RemoveFile(files, GeomFile(CurSize))
            /\ events' = Append(events, Event("remove_geom", CurSize))
            /\ idx' = idx + 1
            /\ pc' = IF idx < Len(GEOM_CAVITY_SIZES) THEN "create_geom"
                     ELSE "remove_params"
            /\ UNCHANGED <<dirs, error, produced, start>>
       ELSE Raise("OSError")

\* execute, l.132: os.remove(abs_path_params())
execute_remove_params ==
    /\ pc = "remove_params"
    /\ IF IsFile(ParamsFile)
       THEN /\ files' = RemoveFile(files, ParamsFile)
            /\ events' = Append(events, Event("remove_params", 0))
            /\ pc' = "rmdir"
            /\ UNCHANGED <<idx, dirs, error, produced, start>>
       ELSE Raise("OSError")

\* the os.rmdir left out of main
main_rmdir_forgot ==
    /\ pc = "rmdir"
    /\ pc' = "done"
    /\ UNCHANGED <<idx, dirs, files, error, events, produced, start>>

\* os.rmdir's OSError caught and dropped
main_rmdir_ignore ==
    /\ pc = "rmdir"
    /\ dirs' = IF Entries(TmpDir) = {} THEN dirs \ {TmpDir} ELSE dirs
    /\ events' = Append(events, Event("rmdir", 0))
    /\ pc' = "done"
    /\ UNCHANGED <<idx, files, error, produced, start>>

\* shutil.rmtree in place of os.rmdir: tmp goes with all that is in it
main_rmdir_rmtree ==
    /\ pc = "rmdir"
    /\ dirs' = dirs \ {TmpDir}
    /\ files' = [q \in {r \in DOMAIN files : Parent(r) # TmpDir} |-> files[q]]
    /\ events' = Append(events, Event("rmdir", 0))
    /\ pc' = "done"
    /\ UNCHANGED <<idx, error, produced, start>>

\* main, l.152: os.rmdir(abs_path_tmp()) removes an empty directory only
main_rmdir ==
    /\ pc = "rmdir"
    /\ IF IsDir(TmpDir) /\ Entries(TmpDir) = {}
       THEN /\ dirs' = dirs \ {TmpDir}
            /\ events' = Append(events, Event("rmdir", 0))
            /\ pc' = "done"
            /\ UNCHANGED <<idx, files, error, produced, start>>
       ELSE Raise("OSError")

ExitCodes == {0, 1}

\* the artifact text is not looked at while the sweep is run
TextIdle ==
    /\ tpc = "off"
    /\ size_n = 0
    /\ size_m = 0
    /\ geom_file = <<>>
    /\ names = <<>>

SweepInit ==
    /\ pc = "mkdir_tmp"
    /\ idx = 0
    /\ error = "none"
    /\ events = <<>>
    /\ produced = [n \in {} |-> Content("none", 0)]
    /\ \E h \in Histories : dirs = h.dirs /\ files = h.files /\ start = h

\* nor are the plots
PlotIdle ==
    /\ ppc = "off"
    /\ pk = 0
    /\ datasets = <<>>
    /\ relbase = ""
    /\ jsons = <<>>
    /\ results_tts = <<>>
    /\ results_solver = <<>>
    /\ speedup_tts = <<>>
    /\ speedup_solver = <<>>
    /\ plotted = <<>>
    /\ perror = "none"

\* and calc_speedup is not called on its own
SpeedIdle ==
    /\ spc = "off"
    /\ in_base = <<>>
    /\ in_other = <<>>
    /\ in_k = 0
    /\ out_self = <<>>
    /\ out_plain = <<>>
    /\ out_scaled = <<>>

\* nor are the two programs' paths compared
PathIdle ==
    /\ path_pc = "off"
    /\ path_i = 0
    /\ args_json = <<>>
    /\ passed = <<>>
    /\ opened = <<>>

Init == SweepInit /\ TextIdle /\ PlotIdle /\ SpeedIdle /\ PathIdle

vars == <<sweepVars, textVars, plotVars, speedVars, pathVars>>

\* a step of the executor leaves everything else alone
SweepOnly == UNCHANGED <<textVars, plotVars, speedVars, pathVars>>

Next ==
    \/ main_mkdir_tmp /\ SweepOnly
    \/ main_mkdir_data /\ SweepOnly
    \/ create_params /\ SweepOnly
    \/ create_geom /\ SweepOnly
    \/ exec_sim_open /\ SweepOnly
    \/ \E code \in ExitCodes, wrote \in BOOLEAN :
          exec_sim_check_call(code, wrote) /\ SweepOnly
    \/ exec_sim_remove /\ SweepOnly
    \/ execute_remove_geom /\ SweepOnly
    \/ execute_remove_params /\ SweepOnly
    \/ main_rmdir /\ SweepOnly

Spec == Init /\ [][Next]_vars

TypeOK == pc \in {"mkdir_tmp", "mkdir_data", "create_params", "create_geom",
                  "open_log", "check_call", "remove_log", "remove_geom",
                  "remove_params", "rmdir", "done", "failed"}

----------------------------------------------------------------------------
\* The artifact generator on its own (specification TextSpec): create_geom
\* and json_filename called with sizes up to MaxSize

MaxSize == 12

\* the executor is not run while the artifact text is looked at
SweepIdle ==
    /\ pc = "off"
    /\ idx = 0
    /\ dirs = {}
    /\ files = NoFiles
    /\ error = "none"
    /\ events = <<>>
    /\ produced = [n \in {} |-> Content("none", 0)]
    /\ start = [dirs |-> {}, files |-> NoFiles]

TextInit ==
    /\ tpc = "start"
    /\ size_n \in 0..MaxSize
    /\ size_m \in 0..MaxSize
    /\ geom_file = <<>>
    /\ names = <<>>
    /\ SweepIdle
    /\ PlotIdle
    /\ SpeedIdle
    /\ PathIdle

\* create_geom(size_n): what geom.write(content) puts into the file
text_create_geom ==
    /\ tpc = "start"
    /\ geom_file' = create_geom_content(size_n)
    /\ tpc' = "geom"
    /\ UNCHANGED <<size_n, size_m, names>>

\* json_filename called for two sizes
text_json_filename ==
    /\ tpc = "geom"
    /\ names' = <<json_filename(size_n), json_filename(size_m)>>
    /\ tpc' = "named"
    /\ UNCHANGED <<size_n, size_m, geom_file>>

TextNext ==
    \/ text_create_geom /\ UNCHANGED <<sweepVars, plotVars, speedVars, pathVars>>
    \/ text_json_filename /\ UNCHANGED <<sweepVars, plotVars, speedVars, pathVars>>

TextSpec == TextInit /\ [][TextNext]_vars

\* the lines of a text: the pieces its "\n" end
Lines(text) ==
    LET pieces == SplitOn(text, "\n")
    IN  IF pieces[Len(pieces)] = <<>> THEN SubSeq(pieces, 1, Len(pieces) - 1)
        ELSE pieces

\* C7: json_filename maps two different positive sizes to two different
\* names.
C7_FilenameInjective ==
    (tpc = "named" /\ size_n >= 1 /\ size_m >= 1 /\ size_n # size_m)
    => names[1] # names[2]

C7_Witness ==
    /\ tpc = "named"
    /\ size_n = 1
    /\ size_m = 11
    /\ names[1] # names[2]
    /\ names[1] = DATAFILE_PREFIX \o <<"_", "1", "x", "1">> \o JSON_SUFFIX

\* C8: for a size N >= 3 the geometry file has, after its five header lines,
\* exactly N mask lines of N characters each: N times 'H', then N-2 lines of
\* '#', N-2 blanks, '#', then N times '#'.
C8_GeometryMask ==
    (tpc # "start" /\ size_n >= 3) =>
       LET ls == Lines(geom_file)
       IN  /\ Len(ls) = 5 + size_n
           /\ ls[5] = <<"g", "e", "o", "m", "e", "t", "r", "y", " ", "=", " ",
                        "f", "r", "e", "e">>
           /\ \A r \in 1..size_n :
                 /\ Len(ls[5 + r]) = size_n
                 /\ \A c \in 1..size_n :
                       ls[5 + r][c] =
                          IF r = 1 THEN "H"
                          ELSE IF r = size_n \/ c = 1 \/ c = size_n THEN "#"
                               ELSE " "

C8_Witness ==
    /\ tpc = "geom"
    /\ size_n = 4
    /\ Len(Lines(geom_file)) = 9
    /\ Lines(geom_file)[7] = <<"#", " ", " ", "#">>

----------------------------------------------------------------------------
\* Properties of the sweep (specification Spec)

IsSuffix(suf, name) ==
    /\ Len(suf) <= Len(name)
    /\ SubSeq(name, Len(name) - Len(suf) + 1, Len(name)) = suf

\* the last component of a resolved path
BaseName(p) == p[Len(p)]

\* the files of tmp by what their names say they are
GeomFilesIn(fs) ==
    {p \in DOMAIN fs : Parent(p) = TmpDir /\ IsSuffix(GEOM_SUFFIX, BaseName(p))}
ParamFilesIn(fs) ==
    {p \in DOMAIN fs : Parent(p) = TmpDir /\ IsSuffix(PARAMS_SUFFIX, BaseName(p))}
LogFilesIn(fs) ==
    {p \in DOMAIN fs : Parent(p) = TmpDir
                        /\ IsSuffix(<<".", "s", "t", "d", "o", "u", "t">>, BaseName(p))}
FilesIn(fs, d) == {p \in DOMAIN fs : Parent(p) = d}

StartedWithEmptyTmp == FilesIn(start.files, TmpDir) = {}
StartedWithEmptyData == FilesIn(start.files, DataDir) = {}

\* the sizes whose solver run has written its result file in this sweep
WroteResult == {events[i].n : i \in {j \in DOMAIN events : events[j].op = "write_result"}}

SolverFailed == pc = "failed" /\ error = "CalledProcessError"

\* C1: from an empty tmp and an empty data directory, a sweep in which every
\* solver run exited 0 and wrote its result ends with exactly one result file
\* per size of GEOM_CAVITY_SIZES in data and nothing else there, and with tmp
\* empty and removed.
C1_SuccessfulSweep ==
    (/\ pc = "done"
     /\ StartedWithEmptyTmp
     /\ StartedWithEmptyData
     /\ WroteResult = Sizes)
    => /\ Entries(DataDir) = {ResultFile(n) : n \in Sizes}
       /\ Cardinality(Entries(DataDir)) = Len(GEOM_CAVITY_SIZES)
       /\ Entries(TmpDir) = {}
       /\ ~IsDir(TmpDir)

C1_Witness ==
    /\ pc = "done"
    /\ StartedWithEmptyTmp
    /\ StartedWithEmptyData
    /\ WroteResult = Sizes

\* C2: a nonzero solver exit is the last thing the sweep does: the process
\* is then in the terminal state failed, from which nothing is enabled, so no
\* geometry is generated and no solver is invoked after it.
C2_NonzeroExitAborts ==
    /\ \A i \in DOMAIN events :
          events[i].op = "exit_nonzero" => (i = Len(events) /\ SolverFailed)
    /\ pc = "failed" => ~ENABLED Next

C2_Witness ==
    /\ SolverFailed
    /\ idx < Len(GEOM_CAVITY_SIZES)
    /\ events[Len(events)].op = "exit_nonzero"

\* C3: when the solver has exited nonzero, the result file of every earlier
\* size is as it was when that size's run exited 0, and the log of the failing
\* run is still in tmp.
C3_FailureKeepsResultsAndLog ==
    SolverFailed =>
       /\ \A n \in DOMAIN produced :
             produced[n].kind # "none" =>
                (IsFile(ResultFile(n)) /\ files[ResultFile(n)] = produced[n])
       /\ IsFile(LogFile(CurSize))
       /\ LogFile(CurSize) \in LogFilesIn(files)

C3_Witness ==
    /\ SolverFailed
    /\ idx = Len(GEOM_CAVITY_SIZES)
    /\ \A n \in DOMAIN produced : produced[n] = ResultText(n)
    /\ IsFile(LogFile(CurSize))

NoSweepFilesInTmp ==
    GeomFilesIn(files) \cup ParamFilesIn(files) \cup LogFilesIn(files) = {}

\* C4 as stated: whenever the sweep has ended, in done or in failed, tmp
\* holds no geometry, parameter or log file and has been removed.
C4_CleanupAlways ==
    pc \in {"done", "failed"} => (NoSweepFilesInTmp /\ ~IsDir(TmpDir))

\* C4 as the code has it: cleanup belongs to the sweep that ends in done; then
\* tmp holds no geometry, parameter or log file and has been removed.  After a
\* nonzero solver exit the parameter file, the geometry file and the log of the
\* failing size are still in tmp, and tmp is still there.
C4_CleanupOnSuccessOnly ==
    /\ pc = "done" => (NoSweepFilesInTmp /\ ~IsDir(TmpDir))
    /\ SolverFailed =>
          /\ IsDir(TmpDir)
          /\ {ParamsFile, GeomFile(CurSize), LogFile(CurSize)} \subseteq DOMAIN files

C4_Witness ==
    /\ SolverFailed
    /\ StartedWithEmptyTmp
    /\ IsDir(TmpDir)
    /\ ~NoSweepFilesInTmp

InFlight == pc \in {"open_log", "check_call", "remove_log", "remove_geom"}

\* C5: from an empty tmp, tmp never holds more than one geometry file nor more
\* than one parameter file; while a size is in flight (its geometry written and
\* not yet removed) it holds exactly one of each, the geometry file being the
\* one of the size in flight.
C5_OneGeometryOneParams ==
    StartedWithEmptyTmp =>
       /\ Cardinality(GeomFilesIn(files)) <= 1
       /\ Cardinality(ParamFilesIn(files)) <= 1
       /\ InFlight =>
             /\ GeomFilesIn(files) = {GeomFile(CurSize)}
             /\ ParamFilesIn(files) = {ParamsFile}

C5_Witness ==
    /\ StartedWithEmptyTmp
    /\ pc = "check_call"
    /\ idx = 2
    /\ GeomFilesIn(files) = {GeomFile(GEOM_CAVITY_SIZES[2])}

\* C6: os.rmdir of a tmp that still holds a file raises; the directory and
\* what is in it stay as they are.
C6_TeardownNeedsEmptyTmp ==
    [][(pc = "rmdir" /\ Entries(TmpDir) # {}) =>
          (/\ pc' = "failed"
           /\ error' = "OSError"
           /\ dirs' = dirs
           /\ files' = files)]_vars

C6_Witness ==
    /\ pc = "failed"
    /\ error = "OSError"
    /\ events[Len(events)].op = "remove_params"
    /\ IsDir(TmpDir)
    /\ IsFile(StrayFile)
    /\ files[StrayFile] = start.files[StrayFile]

----------------------------------------------------------------------------
\* plots.py: the loader and the speed-up (specification PlotSpec)

SIZES == <<32, 64, 100, 128, 200, 256, 300>>

\* a template with the size in it once
FILENAME_TEMPLATE_single(n) ==
    <<"l", "i", "d", "-", "d", "r", "i", "v", "e", "n", "-", "c", "a", "v", "i", "t", "y", "_">>
        \o FormatInt(n) \o <<".", "j", "s", "o", "n">>

\* FILENAME_TEMPLATE.format(n=n)
FILENAME_TEMPLATE(n) ==
    <<"l", "i", "d", "-", "d", "r", "i", "v", "e", "n", "-", "c", "a", "v", "i", "t", "y", "_">>
        \o FormatInt(n) \o <<"x">> \o FormatInt(n) \o <<".", "j", "s", "o", "n">>

KEY_TTS == "tts::full"
KEY_SOLVER == "solver::iteration::full"

\* a float, kept as the fraction it stands for: numerator over denominator;
\* the averages get_results_avg computes are kept unrounded
RECURSIVE GCD(_, _)
GCD(a, b) == IF b = 0 THEN a ELSE GCD(b, a % b)

Rat(num, den) ==
    LET g == GCD(num, den)
    IN  [num |-> num \div g, den |-> den \div g]

\* x / y
RatDiv(x, y) == Rat(x.num * y.den, x.den * y.num)

\* the directory plots.py is run in, against which its "./data/..." resolve
plots_cwd == abs_path

\* the path load_json opens for size n of a dataset directory
LoaderFile(directory, n) ==
    Resolve(plots_cwd \o <<"/">> \o directory \o <<"/">> \o FILENAME_TEMPLATE(n))

Returned(value) == [ok |-> TRUE, value |-> value]
Raised(e) == [ok |-> FALSE, error |-> e]

RECURSIVE AvgLoop(_, _, _, _, _, _)
\* get_results_avg, l.26-31, from the i-th size on: data holds the averages
\* appended so far; the first file or key that is not there raises
AvgLoop(fs, sizes, directory, key, i, data) ==
    IF i > Len(sizes)
    THEN Returned([j \in 1..Len(data) |-> RatDiv(data[j], Rat(1000, 1))])
    ELSE LET filename == LoaderFile(directory, sizes[i])
         IN  IF filename \notin DOMAIN fs THEN Raised("FileNotFoundError")
             ELSE IF key \notin DOMAIN fs[filename] THEN Raised("KeyError")
             ELSE LET entry == fs[filename][key]
                  IN  IF entry.executions = 0 THEN Raised("ZeroDivisionError")
                      ELSE AvgLoop(fs, sizes, directory, key, i + 1,
                                   Append(data,
                                          Rat(entry.duration, entry.executions)))

\* the division by 1000.0 of l.31 left out
get_results_avg_raw(fs, sizes, directory, key) ==
    LET r == AvgLoop(fs, sizes, directory, key, 1, <<>>)
    IN  IF r.ok
        THEN Returned([j \in 1..Len(r.value) |-> RatDiv(r.value[j], Rat(1, 1000))])
        ELSE r

get_results_avg(fs, sizes, directory, key) ==
    AvgLoop(fs, sizes, directory, key, 1, <<>>)

\* numpy's float: binary floating point with Precision significand bits and
\* exponents MinExp..MaxExp (float64 has 53 and -1022..1023), round to nearest,
\* ties to even.  A float is kept as the fraction it stands for, with 0/1 for
\* zero, 1/0 for inf and 0/0 for nan; only floats >= 0 occur here.
Precision == 3
MaxExp == 2
MinExp == 1 - MaxExp

RECURSIVE Pow2(_)
Pow2(i) == IF i = 0 THEN 1 ELSE 2 * Pow2(i - 1)

Zero == [num |-> 0, den |-> 1]
Inf == [num |-> 1, den |-> 0]
NaN == [num |-> 0, den |-> 0]

\* 2^e <= num / den
AtLeastPow2(e, num, den) ==
    IF e >= 0 THEN Pow2(e) * den <= num ELSE den <= num * Pow2(0 - e)

\* the float nearest to the real num / den >= 0: the significand is cut to
\* Precision bits (fewer below 2^MinExp, the subnormal range), and what
\* reaches 2^(MaxExp + 1) is inf
RoundToFloat(num, den) ==
    IF num = 0 THEN Zero
    ELSE IF AtLeastPow2(MaxExp + 1, num, den) THEN Inf
    ELSE LET e == CHOOSE x \in MinExp..MaxExp :
                     /\ x = MinExp \/ AtLeastPow2(x, num, den)
                     /\ ~AtLeastPow2(x + 1, num, den)
             \* the unit in the last place is 2^t
             t == e - (Precision - 1)
             n == IF t >= 0 THEN num ELSE num * Pow2(0 - t)
             d == IF t >= 0 THEN den * Pow2(t) ELSE den
             q == n \div d
             r == n % d
             m == IF 2 * r > d \/ (2 * r = d /\ q % 2 = 1) THEN q + 1 ELSE q
         IN  IF t >= 0
             THEN (IF m * Pow2(t) >= Pow2(MaxExp + 1) THEN Inf
                   ELSE Rat(m * Pow2(t), 1))
             ELSE (IF m >= Pow2(MaxExp + 1 - t) THEN Inf
                   ELSE Rat(m, Pow2(0 - t)))

\* x / y of two floats >= 0
np_divide(x, y) ==
    IF x = NaN \/ y = NaN THEN NaN
    ELSE IF x = Inf THEN (IF y = Inf THEN NaN ELSE Inf)
    ELSE IF y = Inf THEN Zero
    ELSE IF y.num = 0 THEN (IF x.num = 0 THEN NaN ELSE Inf)
    ELSE RoundToFloat(x.num * y.den, x.den * y.num)

\* x * y of two floats >= 0
np_multiply(x, y) ==
    IF x = NaN \/ y = NaN THEN NaN
    ELSE IF x = Inf \/ y = Inf
    THEN (IF x = Zero \/ y = Zero THEN NaN ELSE Inf)
    ELSE RoundToFloat(x.num * y.num, x.den * y.den)

\* every element divided by the first of other, not by its own
calc_speedup_by_first(base, other) ==
    [i \in 1..Len(base) |-> np_divide(base[i], other[1])]

\* np.multiply in place of np.divide
calc_speedup_product(base, other) ==
    [i \in 1..Len(base) |-> np_multiply(base[i], other[i])]

\* np.divide(base, other) of two lists of one length: element by element
calc_speedup(base, other) ==
    [i \in 1..Len(base) |-> np_divide(base[i], other[i])]

\* DATASET_TR1920X_VS_GTX760, l.13-16, and further datasets of the same
\* shape for comparisons over more than two
Dataset(k) ==
    IF k = 1
    THEN [name |-> "AMD TR-1920X (12-Kern CPU)",
          dir |-> <<".", "/", "d", "a", "t", "a", "/", "T", "R", "1", "9", "2", "0", "X">>]
    ELSE IF k = 2
    THEN [name |-> "NVIDIA GTX-760",
          dir |-> <<".", "/", "d", "a", "t", "a", "/", "G", "T", "X", "7", "6", "0">>]
    ELSE [name |-> "dataset " \o ToString(k),
          dir |-> <<".", "/", "d", "a", "t", "a", "/", "D">> \o FormatInt(k)]

MaxDatasets == 3

\* the result file a solver could have written for the i-th size of the k-th
\* dataset: one whole run, and ten solver iterations that take 2000 and 1000
\* for the first two sizes of the first dataset
RunResult(k, i) ==
    [key \in {KEY_TTS, KEY_SOLVER} |->
        IF key = KEY_TTS
        THEN [duration |-> 9000 * i * i + 500 * k, executions |-> 1]
        ELSE [duration |-> <<2, 1, 3, 5, 4, 7, 6>>[i]
                             * (IF k = 1 THEN 1000 ELSE 250 * k),
              executions |-> 10]]

\* m datasets, each with a result file for every size
FullData(m) ==
    [p \in {LoaderFile(Dataset(k).dir, SIZES[i]) : k \in 1..m, i \in DOMAIN SIZES} |->
        LET at == CHOOSE ki \in (1..m) \X (DOMAIN SIZES) :
                     LoaderFile(Dataset(ki[1]).dir, SIZES[ki[2]]) = p
        IN  RunResult(at[1], at[2])]

NoDefect == [kind |-> "none", k |-> 0, i |-> 0, key |-> ""]

\* what may be wrong with one result file of one of m datasets
Defects(m) ==
    {NoDefect}
    \cup [kind : {"missing_file"}, k : 1..m, i : DOMAIN SIZES, key : {""}]
    \cup [kind : {"missing_key", "zero_executions"}, k : 1..m, i : DOMAIN SIZES,
          key : {KEY_TTS, KEY_SOLVER}]

\* the files of m datasets with defect x
DataWith(m, x) ==
    LET full == FullData(m)
        p == LoaderFile(Dataset(x.k).dir, SIZES[x.i])
    IN  IF x.kind = "none" THEN full
        ELSE IF x.kind = "missing_file"
        THEN [q \in (DOMAIN full) \ {p} |-> full[q]]
        ELSE IF x.kind = "missing_key"
        THEN [full EXCEPT ![p] = [key \in (DOMAIN full[p]) \ {x.key} |-> full[p][key]]]
        ELSE [full EXCEPT ![p][x.key].executions = 0]

EmptyDict == [name \in {} |-> <<>>]

\* d[name] = value
Put(d, name, value) ==
    [n \in (DOMAIN d) \cup {name} |-> IF n = name THEN value ELSE d[n]]

PlotInit ==
    /\ ppc = "load_tts"
    /\ pk = 1
    /\ \E m \in 2..MaxDatasets :
          /\ datasets = [k \in 1..m |-> Dataset(k)]
          /\ \E b \in 1..m : relbase = Dataset(b).name
          /\ \E x \in Defects(m) : jsons = DataWith(m, x)
    /\ results_tts = EmptyDict
    /\ results_solver = EmptyDict
    /\ speedup_tts = <<>>
    /\ speedup_solver = <<>>
    /\ plotted = <<>>
    /\ perror = "none"
    /\ SweepIdle
    /\ TextIdle
    /\ SpeedIdle
    /\ PathIdle

\* an exception plot_speedup does not catch
PlotRaise(e) ==
    /\ ppc' = "crashed"
    /\ perror' = e
    /\ UNCHANGED <<pk, datasets, relbase, jsons, results_tts, results_solver,
                   speedup_tts, speedup_solver, plotted>>

\* a dataset that cannot be loaded is left out and the comprehension goes on
plot_load_tts_skip ==
    /\ ppc = "load_tts"
    /\ LET r == get_results_avg(jsons, SIZES, datasets[pk].dir, KEY_TTS)
       IN  results_tts' = IF r.ok THEN Put(results_tts, datasets[pk].name, r.value)
                          ELSE results_tts
    /\ IF pk < Len(datasets) THEN pk' = pk + 1 /\ ppc' = ppc
       ELSE pk' = 1 /\ ppc' = "load_solver"
    /\ UNCHANGED <<datasets, relbase, jsons, results_solver, speedup_tts,
                   speedup_solver, plotted, perror>>

\* plot_speedup, l.38: one pass of the dict comprehension over datasets
plot_load_tts ==
    /\ ppc = "load_tts"
    /\ LET r == get_results_avg(jsons, SIZES, datasets[pk].dir, KEY_TTS)
       IN  IF r.ok
           THEN /\ results_tts' = Put(results_tts, datasets[pk].name, r.value)
                /\ IF pk < Len(datasets) THEN pk' = pk + 1 /\ ppc' = ppc
                   ELSE pk' = 1 /\ ppc' = "load_solver"
                /\ UNCHANGED <<datasets, relbase, jsons, results_solver,
                               speedup_tts, speedup_solver, plotted, perror>>
           ELSE PlotRaise(r.error)

\* plot_speedup, l.39: one pass of the dict comprehension over datasets
plot_load_solver ==
    /\ ppc = "load_solver"
    /\ LET r == get_results_avg(jsons, SIZES, datasets[pk].dir, KEY_SOLVER)
       IN  IF r.ok
           THEN /\ results_solver' = Put(results_solver, datasets[pk].name, r.value)
                /\ IF pk < Len(datasets) THEN pk' = pk + 1 /\ ppc' = ppc
                   ELSE pk' = 1 /\ ppc' = "calc_speedup"
                /\ UNCHANGED <<datasets, relbase, jsons, results_tts,
                               speedup_tts, speedup_solver, plotted, perror>>
           ELSE PlotRaise(r.error)

\* the (name, speed-up) pairs of the datasets other than relbase, in the
\* order the dict got them
SpeedupList(results) ==
    LET others == SelectSeq([k \in DOMAIN datasets |-> datasets[k].name],
                            LAMBDA name : name \in DOMAIN results /\ name # relbase)
    IN  [j \in DOMAIN others |->
            [name |-> others[j],
             series |-> calc_speedup(results[relbase], results[others[j]])]]

\* plot_speedup, l.41-47
plot_calc_speedup ==
    /\ ppc = "calc_speedup"
    /\ IF relbase \in DOMAIN results_tts /\ relbase \in DOMAIN results_solver
       THEN /\ speedup_tts' = SpeedupList(results_tts)
            /\ speedup_solver' = SpeedupList(results_solver)
            /\ ppc' = "savefig"
            /\ UNCHANGED <<pk, datasets, relbase, jsons, results_tts,
                           results_solver, plotted, perror>>
       ELSE PlotRaise("KeyError")

\* plot_speedup, l.49-67: the series are drawn and the figure is saved
plot_savefig ==
    /\ ppc = "savefig"
    /\ plotted' = [tts |-> speedup_tts, solver |-> speedup_solver]
    /\ ppc' = "done"
    /\ UNCHANGED <<pk, datasets, relbase, jsons, results_tts, results_solver,
                   speedup_tts, speedup_solver, perror>>

PlotOnly == UNCHANGED <<sweepVars, textVars, speedVars, pathVars>>

PlotNext ==
    \/ plot_load_tts /\ PlotOnly
    \/ plot_load_solver /\ PlotOnly
    \/ plot_calc_speedup /\ PlotOnly
    \/ plot_savefig /\ PlotOnly

PlotSpec == PlotInit /\ [][PlotNext]_vars

\* the k-th dataset has, for every size, a result file with the key in it
\* and executions > 0
Intact(k, key) ==
    \A i \in DOMAIN SIZES :
       LET f == LoaderFile(datasets[k].dir, SIZES[i])
       IN  /\ f \in DOMAIN jsons
           /\ key \in DOMAIN jsons[f]
           /\ jsons[f][key].executions > 0

\* v is, size by size and in the order of SIZES, duration / executions / 1000
\* of the key in the k-th dataset's result files
IsAverages(v, k, key) ==
    /\ Len(v) = Len(SIZES)
    /\ \A i \in DOMAIN SIZES :
          LET entry == jsons[LoaderFile(datasets[k].dir, SIZES[i])][key]
          IN  /\ v[i].den > 0
              /\ v[i].num * (entry.executions * 1000) = entry.duration * v[i].den

\* the key plot_speedup is loading, or was loading when it crashed
KeyAtWork ==
    IF DOMAIN results_tts = {datasets[k].name : k \in DOMAIN datasets}
    THEN KEY_SOLVER ELSE KEY_TTS

\* C10: for a dataset whose result files are all there with the key and
\* executions > 0, get_results_avg returns (it does not raise) one average
\* per size, in the order of the sizes: duration / executions / 1000.
C10_AveragesInOrder ==
    /\ \A k \in DOMAIN datasets :
          /\ datasets[k].name \in DOMAIN results_tts
                => (Intact(k, KEY_TTS)
                    /\ IsAverages(results_tts[datasets[k].name], k, KEY_TTS))
          /\ datasets[k].name \in DOMAIN results_solver
                => (Intact(k, KEY_SOLVER)
                    /\ IsAverages(results_solver[datasets[k].name], k, KEY_SOLVER))
    /\ ppc = "crashed" => ~Intact(pk, KeyAtWork)

\* durations 2000 and 1000 with 10 executions give 0.2 and 0.1; the second
\* dataset's 1000 makes the first element of the speed-up 2
C10_Witness ==
    /\ ppc = "done"
    /\ relbase = Dataset(1).name
    /\ jsons[LoaderFile(Dataset(1).dir, SIZES[1])][KEY_SOLVER].duration = 2000
    /\ jsons[LoaderFile(Dataset(1).dir, SIZES[2])][KEY_SOLVER].duration = 1000
    /\ SubSeq(results_solver[Dataset(1).name], 1, 2)
          = <<[num |-> 1, den |-> 5], [num |-> 1, den |-> 10]>>
    /\ results_solver[Dataset(2).name][1] = [num |-> 1, den |-> 10]
    /\ plotted.solver[1].name = Dataset(2).name
    /\ plotted.solver[1].series[1] = [num |-> 2, den |-> 1]

\* the speed-up series of the k-th dataset for a key is in the saved figure
Reported(k, key) ==
    /\ ppc = "done"
    /\ LET list == IF key = KEY_TTS THEN plotted.tts ELSE plotted.solver
       IN  \E j \in DOMAIN list : list[j].name = datasets[k].name

BaseIndex == CHOOSE b \in DOMAIN datasets : datasets[b].name = relbase

\* C9 as stated: what is missing in one dataset is fatal for that dataset and
\* metric only; when plot_speedup has ended, the speed-up of every other
\* dataset whose files (and the baseline's) are complete has been reported.
C9_MissingIsLocal ==
    ppc \in {"done", "crashed"} =>
       \A k \in DOMAIN datasets : \A key \in {KEY_TTS, KEY_SOLVER} :
          (k # BaseIndex /\ Intact(k, key) /\ Intact(BaseIndex, key))
             => Reported(k, key)

SomethingMissing ==
    \E k \in DOMAIN datasets : \E i \in DOMAIN SIZES :
       LET f == LoaderFile(datasets[k].dir, SIZES[i])
       IN  \/ f \notin DOMAIN jsons
           \/ {KEY_TTS, KEY_SOLVER} \ DOMAIN jsons[f] # {}

\* C9 as the code has it: a result file or a key missing in any one dataset
\* ends the whole comparison; plot_speedup never gets past the loading, ends
\* with FileNotFoundError or KeyError, and no speed-up series is computed or
\* reported for any dataset.
C9_MissingCrashesAll ==
    SomethingMissing =>
       /\ ppc \in {"load_tts", "load_solver", "crashed"}
       /\ speedup_tts = <<>>
       /\ speedup_solver = <<>>
       /\ plotted = <<>>
       /\ ppc = "crashed" => perror \in {"FileNotFoundError", "KeyError"}

C9_Witness ==
    /\ ppc = "crashed"
    /\ perror = "FileNotFoundError"
    /\ Len(datasets) = 3
    /\ relbase = Dataset(1).name
    /\ LoaderFile(Dataset(3).dir, SIZES[2]) \notin DOMAIN jsons
    /\ \A k \in {1, 2} : Intact(k, KEY_TTS) /\ Intact(k, KEY_SOLVER)
    /\ DOMAIN results_tts = {Dataset(1).name, Dataset(2).name}
    /\ speedup_tts = <<>>

----------------------------------------------------------------------------
\* calc_speedup on its own (specification SpeedSpec): called with series of
\* positive floats, and with the same series scaled by a positive float

MaxLen == 2

\* the float with significand m and exponent e: m * 2^(e - (Precision - 1))
FloatOf(m, e) ==
    LET t == e - (Precision - 1)
    IN  IF t >= 0 THEN Rat(m * Pow2(t), 1) ELSE Rat(m, Pow2(0 - t))

\* every float that is positive and finite: the subnormal ones and the normal
\* ones of every exponent
PositiveFloats ==
    {FloatOf(m, MinExp) : m \in 1..(Pow2(Precision - 1) - 1)}
    \cup {FloatOf(m, e) : m \in Pow2(Precision - 1)..(Pow2(Precision) - 1),
                          e \in MinExp..MaxExp}

One == FloatOf(Pow2(Precision - 1), 0)

\* the floats the series of more than one element are made of: 1, the float
\* after 1, and the largest
SampleFloats ==
    {One, FloatOf(Pow2(Precision - 1) + 1, 0), FloatOf(Pow2(Precision) - 1, MaxExp)}

\* the series calc_speedup is called with
SeriesOfLength(len) ==
    IF len = 1 THEN [1..1 -> PositiveFloats] ELSE [1..len -> SampleFloats]

SpeedInit ==
    /\ spc = "start"
    /\ \E len \in 1..MaxLen :
          /\ in_base \in SeriesOfLength(len)
          /\ in_other \in SeriesOfLength(len)
    /\ in_k \in PositiveFloats
    /\ out_self = <<>>
    /\ out_plain = <<>>
    /\ out_scaled = <<>>
    /\ SweepIdle
    /\ TextIdle
    /\ PlotIdle
    /\ PathIdle

\* k * series, as numpy multiplies an array by a scalar
Scale(k, series) == [i \in 1..Len(series) |-> np_multiply(k, series[i])]

\* calc_speedup(x, x)
speedup_self ==
    /\ spc = "start"
    /\ out_self' = calc_speedup(in_base, in_base)
    /\ spc' = "self"
    /\ UNCHANGED <<in_base, in_other, in_k, out_plain, out_scaled>>

\* calc_speedup(base, other)
speedup_plain ==
    /\ spc = "self"
    /\ out_plain' = calc_speedup(in_base, in_other)
    /\ spc' = "plain"
    /\ UNCHANGED <<in_base, in_other, in_k, out_self, out_scaled>>

\* calc_speedup(k * base, k * other)
speedup_scaled ==
    /\ spc = "plain"
    /\ out_scaled' = calc_speedup(Scale(in_k, in_base), Scale(in_k, in_other))
    /\ spc' = "scaled"
    /\ UNCHANGED <<in_base, in_other, in_k, out_self, out_plain>>

SpeedOnly == UNCHANGED <<sweepVars, textVars, plotVars, pathVars>>

SpeedNext ==
    \/ speedup_self /\ SpeedOnly
    \/ speedup_plain /\ SpeedOnly
    \/ speedup_scaled /\ SpeedOnly

SpeedSpec == SpeedInit /\ [][SpeedNext]_vars

\* numpy's == on two floats: nan equals nothing, not even nan
FloatEq(x, y) == x # NaN /\ y # NaN /\ x = y

\* C11: for every series x of positive (finite) floats, calc_speedup(x, x) is
\* a series of the length of x whose every element is 1.
C11_SelfSpeedupIsOne ==
    spc # "start" =>
       /\ Len(out_self) = Len(in_base)
       /\ \A i \in 1..Len(in_base) : FloatEq(out_self[i], One)

C11_Witness ==
    /\ spc = "self"
    /\ Len(in_base) = 2
    /\ in_base[1] = One
    /\ in_base[2] = FloatOf(Pow2(Precision) - 1, MaxExp)
    /\ out_self = <<One, One>>

\* C12 as stated: for every positive float k, calc_speedup(k * base, k * other)
\* equals calc_speedup(base, other) element by element.
C12_ScaleHomogeneous ==
    spc = "scaled" =>
       /\ Len(out_scaled) = Len(out_plain)
       /\ \A i \in 1..Len(out_plain) : FloatEq(out_scaled[i], out_plain[i])

\* k * x is the real product: nothing was rounded, nothing overflowed to inf
\* or underflowed
ExactProduct(k, x) == np_multiply(k, x) = Rat(k.num * x.num, k.den * x.den)

ExactScaling ==
    \A i \in 1..Len(in_base) :
       ExactProduct(in_k, in_base[i]) /\ ExactProduct(in_k, in_other[i])

\* C12 as the code has it: np.divide rounds, and so does the scaling.  When
\* k * base and k * other are the real products (as for k a power of two that
\* takes no element out of the normal range), calc_speedup(k * base, k * other)
\* equals calc_speedup(base, other) element by element.
C12_ExactScaleHomogeneous ==
    (spc = "scaled" /\ ExactScaling) =>
       /\ Len(out_scaled) = Len(out_plain)
       /\ \A i \in 1..Len(out_plain) : FloatEq(out_scaled[i], out_plain[i])

C12_Witness ==
    /\ spc = "scaled"
    /\ in_k = FloatOf(Pow2(Precision - 1), 1)
    /\ ExactScaling
    /\ Len(in_base) = 2
    /\ in_base[1] # in_other[1]
    /\ out_plain[1] # One
    /\ out_scaled = out_plain

----------------------------------------------------------------------------
\* The order of the sweep (specification Spec)

\* the state of the sweep's state machine the executor is in
Phase ==
    CASE pc \in {"mkdir_tmp", "mkdir_data"} -> "Idle"
      [] pc = "create_params" -> "GeneratingParams"
      [] pc = "create_geom" -> "GeneratingGeometry"
      [] pc \in {"open_log", "check_call", "remove_log"} -> "Executing"
      [] pc = "remove_geom" -> "CleaningGeometry"
      [] pc \in {"remove_params", "rmdir"} -> "CleaningParams"
      [] pc = "done" -> "Done"
      [] pc = "failed" -> "Failed"
      [] OTHER -> "Off"

\* the steps from one state of the state machine to another
PhaseSteps ==
    { <<"Idle", "GeneratingParams">>,
      <<"GeneratingParams", "GeneratingGeometry">>,
      <<"GeneratingGeometry", "Executing">>,
      <<"Executing", "CleaningGeometry">>,
      <<"CleaningGeometry", "GeneratingGeometry">>,
      <<"CleaningGeometry", "CleaningParams">>,
      <<"CleaningParams", "Done">> }

\* what one size adds to the history of a sweep that goes through
SizeRun(n) ==
    <<Event("create_geom", n), Event("open_log", n), Event("exit_zero", n),
      Event("remove_log", n), Event("remove_geom", n)>>

RECURSIVE SizeRuns(_)
SizeRuns(i) ==
    IF i = 0 THEN <<>> ELSE SizeRuns(i - 1) \o SizeRun(GEOM_CAVITY_SIZES[i])

\* the history of a sweep that goes through, the solver's own writes left out
FullSweep ==
    <<Event("create_params", 0)>> \o SizeRuns(Len(GEOM_CAVITY_SIZES))
        \o <<Event("remove_params", 0), Event("rmdir", 0)>>

\* what the executor and the solver's exits have added to the history
Trace == SelectSeq(events, LAMBDA e : e.op # "write_result")

\* the solver runs for size n that were started
Invocations(n) ==
    Cardinality({i \in DOMAIN events :
                    events[i].op \in {"exit_zero", "exit_nonzero"} /\ events[i].n = n})
        + (IF pc = "check_call" /\ CurSize = n THEN 1 ELSE 0)

\* the history is a start of FullSweep, but for a nonzero exit at its end
InSweepOrder ==
    /\ Len(Trace) <= Len(FullSweep)
    /\ \A j \in DOMAIN Trace :
          \/ Trace[j] = FullSweep[j]
          \/ /\ j = Len(Trace)
             /\ pc = "failed"
             /\ FullSweep[j].op = "exit_zero"
             /\ Trace[j] = Event("exit_nonzero", FullSweep[j].n)
    /\ \A n \in Sizes : Invocations(n) <= 1
    /\ pc = "done" => (Trace = FullSweep /\ \A n \in Sizes : Invocations(n) = 1)
    /\ InFlight => Trace[Len(Trace) - (IF pc = "open_log" THEN 0
                                        ELSE IF pc = "check_call" THEN 1
                                        ELSE IF pc = "remove_log" THEN 2 ELSE 3)]
                      = Event("create_geom", CurSize)

\* C13: the sweep goes Idle -> GeneratingParams -> (GeneratingGeometry ->
\* Executing -> CleaningGeometry)* -> CleaningParams -> Done, or from any of
\* these to Failed.  Its history is a start of: parameters written; then for
\* each size in list order geometry written, solver run, geometry removed;
\* then parameters removed.  No solver is run twice for a size, and in a sweep
\* that reaches Done it is run once for every size.
C13_SweepOrder ==
    /\ []InSweepOrder
    /\ [][\/ Phase' = Phase
          \/ <<Phase, Phase'>> \in PhaseSteps
          \/ Phase' = "Failed"]_vars

C13_Witness ==
    /\ pc = "done"
    /\ Trace = FullSweep
    /\ Len(events) = Len(FullSweep) + Len(GEOM_CAVITY_SIZES)

----------------------------------------------------------------------------
\* The solver's log (specification Spec)

\* after every exit 0 in the history comes the removal of that run's log, and
\* nothing else before it
LogRemovedAtOnce ==
    /\ \A j \in DOMAIN Trace :
          Trace[j].op = "exit_zero" =>
             \/ j = Len(Trace) /\ pc = "remove_log" /\ CurSize = Trace[j].n
             \/ j < Len(Trace) /\ Trace[j + 1] = Event("remove_log", Trace[j].n)
    /\ \A j \in DOMAIN Trace :
          Trace[j].op = "remove_geom" =>
             (j > 1 /\ Trace[j - 1] = Event("remove_log", Trace[j].n))

AtMostOneLog == Cardinality(LogFilesIn(files)) <= 1

\* no log is in tmp when a geometry is about to be written or removed
NoLogAroundGeometry ==
    pc \in {"create_geom", "remove_geom"} => LogFilesIn(files) = {}

\* C14 as stated: the log of a run that exited 0 is removed at once, before
\* the geometry of that size is removed and before a later size is started;
\* tmp never holds more than one log, and holds none while a geometry is
\* written or removed.
C14_LogNeverOutlivesRun ==
    /\ LogRemovedAtOnce
    /\ AtMostOneLog
    /\ NoLogAroundGeometry

NoLogAtStart == LogFilesIn(start.files) = {}

\* C14 as the code has it: the log of a run that exited 0 is removed at once,
\* before the geometry of that size is removed and before a later size is
\* started.  In a sweep that found no log in tmp when it started, tmp never
\* holds more than one log and holds none while a geometry is written or
\* removed; the log an aborted sweep left stays in tmp until the sweep comes
\* to its size.
C14_LogRemovedAtOnce ==
    /\ LogRemovedAtOnce
    /\ NoLogAtStart => (AtMostOneLog /\ NoLogAroundGeometry)
    /\ \A p \in LogFilesIn(start.files) :
          (pc \in {"create_geom", "open_log", "check_call", "remove_log", "remove_geom"}
             /\ LogFile(CurSize) # p
             /\ \A i \in 1..idx : LogFile(GEOM_CAVITY_SIZES[i]) # p)
          => IsFile(p)

C14_Witness ==
    /\ NoLogAtStart
    /\ pc = "remove_geom"
    /\ idx = 2
    /\ Trace[Len(Trace)] = Event("remove_log", GEOM_CAVITY_SIZES[2])
    /\ Trace[Len(Trace) - 1] = Event("exit_zero", GEOM_CAVITY_SIZES[2])
    /\ LogFilesIn(files) = {}

----------------------------------------------------------------------------
\* The parameter file (specification Spec)

\* how often op is in the history
Count(op) == Cardinality({i \in DOMAIN events : events[i].op = op})

\* the place of the first op in the history, 0 if there is none
First(op) ==
    IF Count(op) = 0 THEN 0
    ELSE CHOOSE i \in DOMAIN events :
            /\ events[i].op = op
            /\ \A j \in 1..(i - 1) : events[j].op # op

InLoop == pc \in {"create_geom", "open_log", "check_call", "remove_log", "remove_geom"}

ParamsLifetime ==
    \* written once, before the first geometry
    /\ Count("create_params") <= 1
    /\ (InLoop \/ pc \in {"remove_params", "rmdir", "done"})
          => Count("create_params") = 1
    /\ Count("create_geom") > 0
          => (Count("create_params") = 1
              /\ First("create_params") < First("create_geom"))
    \* there, with the text create_params wrote, as long as the loop runs and
    \* when the solver has failed
    /\ (InLoop \/ pc = "remove_params" \/ SolverFailed)
          => (IsFile(ParamsFile) /\ files[ParamsFile] = ParamsText)
    \* removed once, after the last geometry, in a sweep without a failure
    /\ Count("remove_params") <= 1
    /\ pc \in {"rmdir", "done"} => Count("remove_params") = 1
    /\ Count("remove_params") = 1 =>
          LET at == First("remove_params")
          IN  /\ at > 1
              /\ events[at - 1]
                    = Event("remove_geom", GEOM_CAVITY_SIZES[Len(GEOM_CAVITY_SIZES)])
              /\ Count("exit_nonzero") = 0
              /\ \A j \in 1..(at - 1) : events[j].op # "remove_params"
              /\ Count("remove_geom") = Len(GEOM_CAVITY_SIZES)
              /\ ~IsFile(ParamsFile)

\* C15: the parameter file is written once, before the first geometry; the
\* steps of the loop (geometry written, solver run, log and geometry removed)
\* leave it where it is with the text it has; it is removed once, after the
\* geometry of the last size, and not in a sweep in which a solver failed.
C15_ParamsWrittenOnceRemovedOnce ==
    /\ []ParamsLifetime
    /\ [][InLoop => /\ ParamsFile \in DOMAIN files
                    /\ ParamsFile \in DOMAIN files'
                    /\ files'[ParamsFile] = files[ParamsFile]]_vars

C15_Witness ==
    /\ pc = "rmdir"
    /\ Count("create_params") = 1
    /\ Count("remove_params") = 1
    /\ events[Len(events)] = Event("remove_params", 0)
    /\ ParamsFile \in DOMAIN start.files
    /\ ~IsFile(ParamsFile)

----------------------------------------------------------------------------
\* The result file of a failed run (specification Spec)

\* C16 as stated: when the solver has exited nonzero for a size, data holds no
\* result file of that size, whatever data held before the sweep and whatever
\* the solver did before it exited.
C16_NoResultOfFailedSize ==
    SolverFailed => ~IsFile(ResultFile(CurSize))

\* C16 as the code has it: the executor does not touch the result file of the
\* failing size.  After the abort there is one exactly if data held one before
\* the sweep or the solver wrote one before it exited nonzero: the solver's if
\* it wrote one, else the one that was there.
C16_ResultOfFailedSizeUntouched ==
    SolverFailed =>
       LET p == ResultFile(CurSize)
       IN  /\ IsFile(p) <=> (p \in DOMAIN start.files \/ CurSize \in WroteResult)
           /\ CurSize \in WroteResult => files[p] = ResultText(CurSize)
           /\ (p \in DOMAIN start.files /\ CurSize \notin WroteResult)
                 => files[p] = start.files[p]

C16_Witness ==
    /\ SolverFailed
    /\ idx = 2
    /\ ResultFile(CurSize) \notin DOMAIN start.files
    /\ CurSize \notin WroteResult
    /\ ~IsFile(ResultFile(CurSize))
    /\ ResultFile(GEOM_CAVITY_SIZES[1]) \in DOMAIN start.files
    /\ files[ResultFile(GEOM_CAVITY_SIZES[1])] = ResultText(GEOM_CAVITY_SIZES[1])

----------------------------------------------------------------------------
\* The sweep comes to an end (specification FairSpec): the executor goes on to
\* its next statement when it can, and a solver that was started exits

\* the statements of the executor itself
Proceed ==
    (\/ main_mkdir_tmp
     \/ main_mkdir_data
     \/ create_params
     \/ create_geom
     \/ exec_sim_open
     \/ exec_sim_remove
     \/ execute_remove_geom
     \/ execute_remove_params
     \/ main_rmdir) /\ SweepOnly

\* the solver's exit, which check_call waits for
SolverExits ==
    (\E code \in ExitCodes, wrote \in BOOLEAN : exec_sim_check_call(code, wrote))
        /\ SweepOnly

FairSpec == Spec /\ WF_vars(Proceed) /\ WF_vars(SolverExits)

\* C17: when every solver that is started exits and no file operation blocks,
\* the sweep comes to Done or to Failed.  There is no timeout: while the
\* solver runs, the executor has no step of its own, and the only step that
\* can be taken is the solver's exit; until then the sweep stays at the size it is at.
C17_SweepEnds ==
    /\ <>(pc \in {"done", "failed"})
    /\ [](pc = "check_call" => ~ENABLED Proceed)
    /\ [][pc = "check_call" =>
             /\ events'[Len(events')].op \in {"exit_zero", "exit_nonzero"}
             /\ events'[Len(events')].n = CurSize
             /\ idx' = idx]_vars

C17_Witness ==
    /\ pc = "done"
    /\ Count("exit_zero") = Len(GEOM_CAVITY_SIZES)
    /\ Count("rmdir") = 1

----------------------------------------------------------------------------
\* Where the executor puts the results and where the loader looks for them
\* (specification PathSpec): a sweep into a dataset directory, then the loader
\* on the same directory, both run in the directory of the scripts

MaxDataArgs == 8

\* ways to name a dataset directory: executor.py -j <dir>, and the directory
\* of a dataset in plots.py
DataArgs ==
    << REL_PATH_DATA,
       <<"d", "a", "t", "a">>,
       Dataset(1).dir,
       Dataset(2).dir,
       <<"d", "a", "t", "a", "/", "T", "R", "1", "9", "2", "0", "X", "/">>,
       <<".", "/", "d", "a", "t", "a", "/", ".", ".", "/", "d", "a", "t", "a", "/",
         "G", "T", "X", "7", "6", "0">>,
       <<"d", "a", "t", "a", "/", "/", "T", "R", "1", "9", "2", "0", "X">>,
       <<".", "/", ".", "/", "d", "a", "t", "a">> >>
    \o [k \in 1..(MaxDataArgs - 8) |-> Dataset(2 + k).dir]

PathInit ==
    /\ path_pc = "sweep"
    /\ path_i = 1
    /\ \E a \in 1..MaxDataArgs : args_json = DataArgs[a]
    /\ passed = <<>>
    /\ opened = <<>>
    /\ SweepIdle
    /\ TextIdle
    /\ PlotIdle
    /\ SpeedIdle

\* exec_sim, l.104, for the next size of execute's loop: the file the solver
\* is told to write
path_exec_sim ==
    /\ path_pc = "sweep"
    /\ passed' = Append(passed,
                        Resolve(json_path(main_abs_path_data(args_json),
                                          GEOM_CAVITY_SIZES[path_i])))
    /\ IF path_i < Len(GEOM_CAVITY_SIZES)
       THEN path_i' = path_i + 1 /\ path_pc' = path_pc
       ELSE path_i' = 1 /\ path_pc' = "load"
    /\ UNCHANGED <<args_json, opened>>

\* get_results_avg, l.27-28, for the next size of its loop: the file load_json
\* opens
path_load_json ==
    /\ path_pc = "load"
    /\ opened' = Append(opened, LoaderFile(args_json, SIZES[path_i]))
    /\ IF path_i < Len(SIZES)
       THEN path_i' = path_i + 1 /\ path_pc' = path_pc
       ELSE path_i' = 0 /\ path_pc' = "loaded"
    /\ UNCHANGED <<args_json, passed>>

PathOnly == UNCHANGED <<sweepVars, textVars, plotVars, speedVars>>

PathNext ==
    \/ path_exec_sim /\ PathOnly
    \/ path_load_json /\ PathOnly

PathSpec == PathInit /\ [][PathNext]_vars

\* C18: the executor sweeps the sizes the loader reads, and for every size the
\* file the executor has the solver write in a dataset directory is the file
\* the loader opens for that size in that directory: every file the loader
\* opens is one a sweep into the directory has passed to a solver.
C18_ExecutorAndLoaderAgree ==
    /\ GEOM_CAVITY_SIZES = SIZES
    /\ path_pc \in {"load", "loaded"} =>
          /\ Len(passed) = Len(SIZES)
          /\ \A i \in DOMAIN opened :
                /\ opened[i] = passed[i]
                /\ opened[i] \in {passed[j] : j \in DOMAIN passed}
    /\ path_pc = "loaded" => Len(opened) = Len(GEOM_CAVITY_SIZES)
    /\ args_json = REL_PATH_DATA =>
          \A i \in DOMAIN passed : passed[i] = ResultFile(GEOM_CAVITY_SIZES[i])

C18_Witness ==
    /\ path_pc = "loaded"
    /\ args_json = Dataset(1).dir
    /\ opened = passed
    /\ Len(opened) = 7
    /\ opened[3] = Resolve(<<"/", "v", "a", "l", "i", "d", "a", "t", "i", "o", "n", "/",
                            "d", "a", "t", "a", "/", "T", "R", "1", "9", "2", "0", "X", "/",
                            "l", "i", "d", "-", "d", "r", "i", "v", "e", "n", "-",
                            "c", "a", "v", "i", "t", "y", "_",
                            "1", "0", "0", "x", "1", "0", "0", ".", "j", "s", "o", "n">>)

----------------------------------------------------------------------------
\* What an aborted sweep leaves, and the sweep after it

\* the files of directory d with what is in them
Holding(fs, d) == [p \in FilesIn(fs, d) |-> fs[p]]

\* C19: from an empty tmp, when the solver has exited nonzero at the k-th
\* size, tmp is still there and holds three files and no more: the parameter
\* file, the geometry file of that size and the log of that size; no geometry
\* file and no log of a size before it.
C19_AbortLeavesThreeFiles ==
    (SolverFailed /\ StartedWithEmptyTmp) =>
       /\ IsDir(TmpDir)
       /\ Entries(TmpDir) = {ParamsFile, GeomFile(CurSize), LogFile(CurSize)}
       /\ Cardinality(Entries(TmpDir)) = 3
       /\ Holding(files, TmpDir) = AbortLeftovers(idx)
       /\ \A i \in 1..(idx - 1) :
             /\ ~IsFile(GeomFile(GEOM_CAVITY_SIZES[i]))
             /\ ~IsFile(LogFile(GEOM_CAVITY_SIZES[i]))

C19_Witness ==
    /\ SolverFailed
    /\ StartedWithEmptyTmp
    /\ idx = 3
    /\ Cardinality(Entries(TmpDir)) = 3
    /\ Count("remove_geom") = 2

\* the sweep started with what a sweep aborted at the k-th size left in tmp
StartedAfterAbortAt(k) == Holding(start.files, TmpDir) = AbortLeftovers(k)

StartedAfterAbort == \E k \in DOMAIN GEOM_CAVITY_SIZES : StartedAfterAbortAt(k)

\* o1 of size n1 is in the history, and o2 of size n2 after it
InOrder(o1, n1, o2, n2) ==
    \E i, j \in DOMAIN events :
       i < j /\ events[i] = Event(o1, n1) /\ events[j] = Event(o2, n2)

RerunCleansUp ==
    \A k \in DOMAIN GEOM_CAVITY_SIZES :
       LET n == GEOM_CAVITY_SIZES[k]
       IN  StartedAfterAbortAt(k) =>
              \* nothing but a nonzero exit ends the second sweep early
              /\ pc = "failed" => SolverFailed
              \* the leftovers of size k are there until the sweep comes to it
              /\ (InLoop /\ idx < k) =>
                    /\ IsFile(GeomFile(n)) /\ files[GeomFile(n)] = start.files[GeomFile(n)]
                    /\ IsFile(LogFile(n)) /\ files[LogFile(n)] = start.files[LogFile(n)]
              \* the leftover log is opened anew: what the first run wrote is gone
              /\ (pc = "check_call" /\ idx = k) => files[LogFile(n)] = EmptyLog
              \* each leftover was written anew and then removed
              /\ pc = "done" =>
                    /\ InOrder("create_params", 0, "remove_params", 0)
                    /\ InOrder("create_geom", n, "remove_geom", n)
                    /\ InOrder("open_log", n, "remove_log", n)
                    /\ Entries(TmpDir) = {}
                    /\ ~IsDir(TmpDir)

\* C20: a sweep that starts with what an aborted sweep left in tmp, and in
\* which every solver exits 0, comes to done: it writes the leftover parameter
\* file, geometry file and log anew, removes each of them, and ends with tmp
\* empty and removed.
C20_RerunAfterAbort ==
    /\ []RerunCleansUp
    /\ StartedAfterAbort ~> (pc = "done" \/ Count("exit_nonzero") > 0)

C20_Witness ==
    /\ StartedAfterAbortAt(2)
    /\ pc = "done"
    /\ Count("exit_nonzero") = 0
    /\ ~IsDir(TmpDir)
    /\ InOrder("open_log", GEOM_CAVITY_SIZES[2], "remove_log", GEOM_CAVITY_SIZES[2])

====
